---- MODULE Spec2Model ----
(***************************************************************************)
(* Model of the Ratatouille recipe pipeline: the LangGraph stage graph of  *)
(* backend/graph.py with its retry edge, and the filter / score / sort /   *)
(* diversity-selection / comparison code of                                *)
(* backend/agents/personalization.py.                                      *)
(*                                                                         *)
(* Text is modelled as a sequence of one-character strings, so that        *)
(* lower(), split(), join() and the substring test "a in b" are computed   *)
(* as Python computes them.  Scores are kept in tenths of a point.         *)
(***************************************************************************)
EXTENDS Integers, Sequences, FiniteSets, TLC

VARIABLES
    pc,                   \* the node the graph runs next, "END", or "raised"
    learning_goal,        \* RecipeState fields (state.py)
    skill_level,
    dietary_restrictions,
    excluded_urls,
    search_queries,
    search_strategy,
    raw_recipes,
    scored_recipes,
    final_cards,
    comparison,
    errors,
    tavily_calls,
    llm_calls,
    retry_count,
    http_status,          \* what the endpoint answered, 0 before it has
    pair,                 \* two requests served at once: their states, the heap
    hist                  \* history of the run (not program state)

vars == <<pc, learning_goal, skill_level, dietary_restrictions, excluded_urls,
          search_queries, search_strategy, raw_recipes, scored_recipes,
          final_cards, comparison, errors, tavily_calls, llm_calls,
          retry_count, http_status, pair, hist>>

(***************************************************************************)
(* Bounds of the model.                                                    *)
(***************************************************************************)
MaxQueries == 2      \* longest query list the planner's LLM returns
MaxCands == 4        \* longest candidate list handed to the ranking stage alone
MaxCalls == 5        \* cap on planner invocations explored in one run
MaxFaults == 1       \* external calls (search, LLM) that fail in one run

(***************************************************************************)
(* Program constants.                                                      *)
(***************************************************************************)
MAX_RETRIES == 2     \* graph.py: retry_count < 2
MIN_RECIPES == 2     \* graph.py: recipe_count < 2
HUNTER_QUERIES == 3  \* recipe_hunter.py: search_queries[:3]
HUNTER_RESULTS == 2  \* recipe_hunter.py: results[:2]
HUNTER_ENOUGH == 2   \* recipe_hunter.py: len(all_recipes) >= 2, all_recipes[:2]
MIN_FILTERED == 2    \* personalization.py: len(filtered_recipes) < 2
TOP_SLICE == 6       \* personalization.py: scored_recipes[:6]
SELECT_COUNT == 3    \* personalization.py: _select_diverse_recipes(..., 3)

(***************************************************************************)
(* Text: Python str operations on sequences of characters.                 *)
(***************************************************************************)
UpperChars == <<"A","B","C","D","E","F","G","H","I","J","K","L","M",
                "N","O","P","Q","R","S","T","U","V","W","X","Y","Z">>
LowerChars == <<"a","b","c","d","e","f","g","h","i","j","k","l","m",
                "n","o","p","q","r","s","t","u","v","w","x","y","z">>

UpperSet == {UpperChars[i] : i \in DOMAIN UpperChars}

LowerChar(c) ==
    IF c \in UpperSet
    THEN LowerChars[CHOOSE i \in DOMAIN UpperChars : UpperChars[i] = c]
    ELSE c

\* str.lower()
Lower(s) == [i \in DOMAIN s |-> LowerChar(s[i])]

\* needle in hay
IsSubstr(needle, hay) ==
    \E i \in 0..(Len(hay) - Len(needle)) :
        SubSeq(hay, i + 1, i + Len(needle)) = needle

SP == <<" ">>

\* sep.join(list)
RECURSIVE Join(_, _)
Join(list, sep) ==
    IF list = <<>> THEN <<>>
    ELSE IF Len(list) = 1 THEN list[1]
    ELSE list[1] \o sep \o Join(Tail(list), sep)

\* str.split(): the maximal runs of non-blank characters, in order
RECURSIVE SplitFrom(_, _, _)
SplitFrom(s, i, word) ==
    IF i > Len(s)
    THEN IF word = <<>> THEN <<>> ELSE <<word>>
    ELSE IF s[i] = " "
         THEN IF word = <<>> THEN SplitFrom(s, i + 1, <<>>)
              ELSE <<word>> \o SplitFrom(s, i + 1, <<>>)
         ELSE SplitFrom(s, i + 1, Append(word, s[i]))

Split(s) == SplitFrom(s, 1, <<>>)

Range(f) == {f[i] : i \in DOMAIN f}

Min(a, b) == IF a <= b THEN a ELSE b

\* list[:n]
Take(list, n) == SubSeq(list, 1, Min(n, Len(list)))

(***************************************************************************)
(* Candidate records.  A recipe is the dict the hunter's LLM parse returns *)
(* plus the keys recipe_hunter adds.  `missing` is the set of keys the     *)
(* dict does not have; a list-valued field is a sequence of items, each    *)
(* item either one string (nested = FALSE, strs = <<s>>) or a nested list  *)
(* of strings (nested = TRUE).                                             *)
(***************************************************************************)
Str1(s) == [nested |-> FALSE, strs |-> <<s>>]
Items(strings) == [i \in DOMAIN strings |-> Str1(strings[i])]

Has(recipe, key) == key \notin recipe.missing

\* recipe.get(key, default)
Get(recipe, key, default) == IF Has(recipe, key) THEN recipe[key] ELSE default

(***************************************************************************)
(* Inputs: the candidates the external search and parse can return, and    *)
(* the requests.                                                           *)
(***************************************************************************)
Recipe(url, title, difficulty, techniques, ingredients, published, tavily, missing) ==
    [url |-> url, title |-> title, difficulty |-> difficulty,
     techniques |-> techniques, ingredients |-> ingredients,
     published_date |-> published, tavily_score |-> tavily, missing |-> missing]

R_chicken ==
    Recipe("u1", <<"R","e","d"," ","W","i","n","e"," ","P","a","n"," ","S","a","u","c","e"," ","C","h","i","c","k","e","n"," ","R","e","c","i","p","e">>, "intermediate",
           Items(<< <<"d","e","g","l","a","z","i","n","g">>, <<"R","e","d","u","c","t","i","o","n">> >>),
           Items(<< <<"C","h","i","c","k","e","n">>, <<"r","e","d"," ","w","i","n","e">>, <<"b","u","t","t","e","r">> >>),
           <<"2","0","2","4","-","0","3","-","0","1">>, 10, {})

\* scores like R_chicken, and its title shares "red", "wine", "pan", "sauce"
R_mushroom ==
    Recipe("u2", <<"R","e","d"," ","W","i","n","e"," ","R","e","d","u","c","t","i","o","n"," ","P","a","n"," ","S","a","u","c","e"," ","R","e","c","i","p","e">>, "intermediate",
           Items(<< <<"d","e","g","l","a","z","i","n","g">>, <<"R","e","d","u","c","t","i","o","n">> >>),
           Items(<< <<"m","u","s","h","r","o","o","m">>, <<"r","e","d"," ","w","i","n","e">> >>),
           <<"2","0","2","4","-","0","3","-","0","1">>, 10, {})

R_fish ==
    Recipe("u3", <<"L","e","m","o","n"," ","B","u","t","t","e","r"," ","F","i","s","h">>, "beginner",
           Items(<< <<"e","m","u","l","s","i","f","i","c","a","t","i","o","n">>, <<"m","o","u","n","t","i","n","g"," ","b","u","t","t","e","r">>, <<"s","e","a","r","i","n","g">> >>),
           Items(<< <<"f","i","s","h">>, <<"l","e","m","o","n">>, <<"b","u","t","t","e","r">> >>),
           <<"U","n","k","n","o","w","n">>, 5, {})

\* the URL of R_chicken with other content; "eggplant" holds the word "egg"
R_rice ==
    Recipe("u1", <<"E","a","s","y"," ","R","i","c","e"," ","B","o","w","l">>, "beginner",
           Items(<< <<"d","i","c","i","n","g">> >>),
           Items(<< <<"r","i","c","e">>, <<"e","g","g","p","l","a","n","t">> >>),
           <<"2","0","2","2","-","0","5","-","0","5">>, 5, {})

Catalogue == {R_chicken, R_mushroom, R_fish, R_rice}

\* parsed recipes of another shape: the LLM left "time_estimate" out of its
\* JSON, or returned a list inside the techniques list
R_notime == [R_fish EXCEPT !.url = "u4", !.missing = {"time_estimate"}]

R_nested ==
    [R_mushroom EXCEPT
        !.url = "u5",
        !.techniques = <<[nested |-> TRUE, strs |-> <<<<"w","h","i","s","k","i","n","g">>, <<"e","m","u","l","s","i","o","n">>>>]>>]

ShapeCatalogue == {R_chicken, R_notime, R_nested}

\* the LLM returned a list inside the ingredients list, the case
\* flatten_to_strings of the ranking stage is there for
R_grouped == [R_rice EXCEPT !.url = "u6", !.ingredients[1].nested = TRUE]

\* the validated recipes the nutrition stage is run on
NutritionCatalogue == {R_chicken, R_rice, R_grouped}

AllRecipes == Catalogue \cup ShapeCatalogue \cup NutritionCatalogue

\* a request: learning_goal, skill_level, dietary_restrictions, excluded_urls
Request(goal, skill, restrictions, excluded) ==
    [learning_goal |-> goal, skill_level |-> skill,
     dietary_restrictions |-> restrictions, excluded_urls |-> excluded]

PlainRequest == Request(<<"p","a","n"," ","s","a","u","c","e","s">>, "intermediate", <<>>, {})
VeganRequest == Request(<<"P","a","n"," ","S","a","u","c","e","s">>, "beginner", << <<"V","e","g","a","n">> >>, {"u3"})
VegetarianRequest ==
    Request(<<"s","e","a","r","i","n","g"," ","f","i","s","h">>, "expert", << <<"v","e","g","e","t","a","r","i","a","n">> >>, {"u1"})

Requests == {PlainRequest, VeganRequest, VegetarianRequest}

\* the requests of the whole-pipeline runs
PipelineRequests == {PlainRequest}

\* every list of at most n elements of S
ListsUpTo(S, n) == UNION {[1..k -> S] : k \in 0..n}

(***************************************************************************)
(* _filter_recipes                                                         *)
(***************************************************************************)
\* flatten_to_strings(obj): nested lists flattened, in order
RECURSIVE flatten_to_strings(_)
flatten_to_strings(items) ==
    IF items = <<>> THEN <<>>
    ELSE items[1].strs \o flatten_to_strings(Tail(items))

\* " ".join(flat_ingredients).lower()
IngredientsText(recipe) ==
    Lower(Join(flatten_to_strings(Get(recipe, "ingredients", <<>>)), SP))

restrictions_map(restriction) ==
    CASE restriction = <<"v","e","g","e","t","a","r","i","a","n">> ->
         << <<"c","h","i","c","k","e","n">>, <<"b","e","e","f">>, <<"p","o","r","k">>, <<"f","i","s","h">>, <<"m","e","a","t">> >>
      [] restriction = <<"v","e","g","a","n">> ->
         << <<"c","h","i","c","k","e","n">>, <<"b","e","e","f">>, <<"p","o","r","k">>, <<"f","i","s","h">>, <<"m","e","a","t">>,
            <<"e","g","g">>, <<"d","a","i","r","y">>, <<"m","i","l","k">>, <<"c","h","e","e","s","e">>, <<"b","u","t","t","e","r">> >>
      [] restriction = <<"g","l","u","t","e","n","-","f","r","e","e">> ->
         << <<"f","l","o","u","r">>, <<"w","h","e","a","t">>, <<"b","r","e","a","d">>, <<"p","a","s","t","a">> >>
      [] OTHER -> <<>>

\* the restriction loop: some active restriction has a forbidden word in the text
SkipRecipe(recipe, restrictions) ==
    /\ restrictions # <<>>
    /\ \E i \in DOMAIN restrictions :
         \E word \in Range(restrictions_map(Lower(restrictions[i]))) :
            IsSubstr(word, IngredientsText(recipe))

\* SkipRecipe, evaluated once for each candidate and restriction list
RestrictionLists ==
    {<<>>} \cup {request.dietary_restrictions : request \in Requests \cup PipelineRequests}

\* a function written out as the table of its values
Tabulated(f) == f @@ <<>>

\* SkipRecipe, evaluated once for each candidate and restriction list
SkipTable ==
    Tabulated([recipe \in AllRecipes, restrictions \in RestrictionLists |->
                  SkipRecipe(recipe, restrictions)])

FilterRecipes(recipes, restrictions, skill) ==
    SelectSeq(recipes, LAMBDA recipe : ~SkipTable[recipe, restrictions])

(***************************************************************************)
(* _score_recipe, in tenths of a point                                     *)
(***************************************************************************)
TECHNIQUE_MAP_KEYS ==
    { <<"p","a","n"," ","s","a","u","c","e","s">>, <<"b","r","e","a","d"," ","b","a","k","i","n","g">>, <<"k","n","i","f","e"," ","s","k","i","l","l","s">>, <<"r","o","a","s","t","i","n","g">>, <<"p","a","s","t","a">> }

TECHNIQUE_MAP(goal) ==
    CASE goal = <<"p","a","n"," ","s","a","u","c","e","s">> ->
         << <<"d","e","g","l","a","z","i","n","g">>, <<"e","m","u","l","s","i","f","i","c","a","t","i","o","n">>, <<"r","e","d","u","c","t","i","o","n">>, <<"m","o","u","n","t","i","n","g"," ","b","u","t","t","e","r">> >>
      [] goal = <<"b","r","e","a","d"," ","b","a","k","i","n","g">> ->
         << <<"k","n","e","a","d","i","n","g">>, <<"p","r","o","o","f","i","n","g">>, <<"s","c","o","r","i","n","g">>, <<"f","e","r","m","e","n","t","a","t","i","o","n">> >>
      [] goal = <<"k","n","i","f","e"," ","s","k","i","l","l","s">> ->
         << <<"j","u","l","i","e","n","n","e">>, <<"b","r","u","n","o","i","s","e">>, <<"c","h","i","f","f","o","n","a","d","e">>, <<"d","i","c","i","n","g">> >>
      [] goal = <<"r","o","a","s","t","i","n","g">> ->
         << <<"s","e","a","r","i","n","g">>, <<"b","a","s","t","i","n","g">>, <<"t","e","m","p","e","r","a","t","u","r","e"," ","c","o","n","t","r","o","l">>, <<"r","e","s","t","i","n","g">> >>
      [] goal = <<"p","a","s","t","a">> ->
         << <<"d","o","u","g","h"," ","m","a","k","i","n","g">>, <<"r","o","l","l","i","n","g">>, <<"s","h","a","p","i","n","g">>, <<"s","a","u","c","e"," ","p","a","i","r","i","n","g">> >>

\* recipe_techniques: one level flattened, lower-cased
RecipeTechniques(recipe) ==
    LET flat == flatten_to_strings(Get(recipe, "techniques", <<>>))
    IN  [i \in DOMAIN flat |-> Lower(flat[i])]

\* TECHNIQUE_MAP.get(learning_goal, learning_goal.split())
RelevantTechniques(goal) ==
    IF goal \in TECHNIQUE_MAP_KEYS THEN TECHNIQUE_MAP(goal) ELSE Split(goal)

LearningValue(recipe, goal) ==
    LET relevant == RelevantTechniques(Lower(goal))
        rts == RecipeTechniques(recipe)
        matches == Cardinality({i \in DOMAIN relevant :
                      \E j \in DOMAIN rts : IsSubstr(relevant[i], rts[j])})
    IN  10 * Min(matches * 10, 30)

SKILLS == {"beginner", "intermediate", "advanced"}

skill_scores(user, difficulty) ==
    CASE user = "beginner" /\ difficulty = "beginner" -> 25
      [] user = "beginner" /\ difficulty = "intermediate" -> 8
      [] user = "beginner" /\ difficulty = "advanced" -> -10
      [] user = "intermediate" /\ difficulty = "beginner" -> 3
      [] user = "intermediate" /\ difficulty = "intermediate" -> 25
      [] user = "intermediate" /\ difficulty = "advanced" -> 12
      [] user = "advanced" /\ difficulty = "beginner" -> -10
      [] user = "advanced" /\ difficulty = "intermediate" -> 8
      [] user = "advanced" /\ difficulty = "advanced" -> 25
      [] OTHER -> 10

SkillMatch(recipe, skill) ==
    10 * skill_scores(skill, Get(recipe, "difficulty", "intermediate"))

Recency(recipe) ==
    LET published == Get(recipe, "published_date", <<>>)
    IN  IF published # <<>> /\ published # <<"U","n","k","n","o","w","n">>
        THEN IF IsSubstr(<<"2","0","2","4">>, published) \/ IsSubstr(<<"2","0","2","5">>, published)
             THEN 200
             ELSE IF IsSubstr(<<"2","0","2","3">>, published) THEN 150
             ELSE IF IsSubstr(<<"2","0","2","2">>, published) THEN 100
             ELSE 50
        ELSE 0

\* tavily_score is kept in tenths (5 is 0.5); tavily_score * 15 in tenths of a point
SourceQuality(recipe) == Get(recipe, "tavily_score", 5) * 15

TechniqueDiversity(recipe) ==
    IF Len(RecipeTechniques(recipe)) >= 3 THEN 100
    ELSE IF Len(RecipeTechniques(recipe)) >= 2 THEN 50
    ELSE 0

ScoreRecipe(recipe, goal, skill) ==
    LearningValue(recipe, goal) + SkillMatch(recipe, skill) + Recency(recipe)
      + SourceQuality(recipe) + TechniqueDiversity(recipe)

\* ScoreRecipe, evaluated once for each candidate and request
ScoreTable ==
    Tabulated([recipe \in AllRecipes, request \in Requests \cup PipelineRequests |->
                  ScoreRecipe(recipe, request.learning_goal, request.skill_level)])

(***************************************************************************)
(* scored_recipes.sort(key=score, reverse=True): Python's sort is stable,  *)
(* so entries of equal score keep the order they had.                      *)
(***************************************************************************)
\* mutant of the sort: entries of equal score come out in reverse order
SortByScoreDesc_unstable(list) ==
    LET before(i) == {j \in DOMAIN list :
                        \/ list[j].score > list[i].score
                        \/ list[j].score = list[i].score /\ j > i}
    IN  [k \in 1..Len(list) |->
            list[CHOOSE i \in DOMAIN list : Cardinality(before(i)) + 1 = k]]

\* the entry at position k is the one with k - 1 entries before it: those of
\* higher score, and those of equal score that stood earlier
SortByScoreDesc(list) ==
    LET before(i) == {j \in DOMAIN list :
                        \/ list[j].score > list[i].score
                        \/ list[j].score = list[i].score /\ j < i}
    IN  [k \in 1..Len(list) |->
            list[CHOOSE i \in DOMAIN list : Cardinality(before(i)) + 1 = k]]

(***************************************************************************)
(* _select_diverse_recipes                                                 *)
(***************************************************************************)
common_words ==
    { <<"w","i","t","h">>, <<"a","n","d">>, <<"t","h","e">>, <<"i","n">>, <<"f","o","r">>, <<"t","o">>, <<"r","e","c","i","p","e">>,
      <<"e","a","s","y">>, <<"s","i","m","p","l","e">>, <<"b","e","s","t">>, <<"a">>, <<"a","n">>, <<"h","o","w">>, <<"m","a","k","e">>,
      <<"h","o","m","e","m","a","d","e">> }

\* set(word for word in title.lower().split() if word not in common_words)
KeyWords(recipe) ==
    {w \in Range(Split(Lower(Get(recipe, "title", <<>>)))) : w \notin common_words}

\* KeyWords, evaluated once for each candidate
KeyWordsTable == Tabulated([recipe \in AllRecipes |-> KeyWords(recipe)])

\* mutant of the similarity tests: no candidate is too similar
TooSimilar_never(candidate_words, selected_words) == FALSE

\* the two similarity tests of one candidate against one selected item
TooSimilar(candidate_words, selected_words) ==
    LET key_ingredients == candidate_words \cap selected_words
    IN  \/ Cardinality(key_ingredients) >= 2
        \/ /\ candidate_words # {}
           /\ selected_words # {}
           /\ 10 * Cardinality(key_ingredients)
                > 3 * Min(Cardinality(candidate_words), Cardinality(selected_words))

IsSimilarDish(candidate, selected) ==
    \E i \in DOMAIN selected :
        TooSimilar(KeyWordsTable[candidate.recipe],
                   KeyWordsTable[selected[i].recipe])

\* set(list) raises TypeError when the list holds a list
Unhashable(recipe) ==
    \E i \in DOMAIN Get(recipe, "techniques", <<>>) :
        Get(recipe, "techniques", <<>>)[i].nested

\* set(recipe.get("techniques", []))
TechniqueSet(recipe) ==
    {Get(recipe, "techniques", <<>>)[i].strs[1] :
        i \in DOMAIN Get(recipe, "techniques", <<>>)}

SelectedTechniques(selected) ==
    UNION {TechniqueSet(selected[i].recipe) : i \in DOMAIN selected}

\* the loop over scored_recipes[1:]; i is the position of the next candidate
RECURSIVE DiversityPass(_, _, _, _)
DiversityPass(scored, i, selected, count) ==
    IF i > Len(scored) \/ Len(selected) >= count
    THEN [raised |-> FALSE, selected |-> selected]
    ELSE IF IsSimilarDish(scored[i], selected)
    THEN DiversityPass(scored, i + 1, selected, count)
    ELSE IF \/ Unhashable(scored[i].recipe)
            \/ \E k \in DOMAIN selected : Unhashable(selected[k].recipe)
    THEN [raised |-> TRUE, selected |-> selected]
    ELSE IF \/ TechniqueSet(scored[i].recipe) \ SelectedTechniques(selected) # {}
            \/ Len(selected) < count
    THEN DiversityPass(scored, i + 1, Append(selected, scored[i]), count)
    ELSE DiversityPass(scored, i + 1, selected, count)

\* the fill loop; "candidate not in selected" compares dicts by value
RECURSIVE Backfill(_, _, _, _)
Backfill(scored, i, selected, count) ==
    IF i > Len(scored) \/ Len(selected) >= count THEN selected
    ELSE IF scored[i] \notin Range(selected)
    THEN Backfill(scored, i + 1, Append(selected, scored[i]), count)
    ELSE Backfill(scored, i + 1, selected, count)

SelectDiverseRecipes(scored, count) ==
    IF Len(scored) <= count
    THEN [raised |-> FALSE, selected |-> scored]
    ELSE LET pass == DiversityPass(scored, 2, <<scored[1]>>, count)
         IN  IF pass.raised THEN pass
             ELSE [raised |-> FALSE,
                   selected |-> Backfill(scored, 1, pass.selected, count)]

(***************************************************************************)
(* _generate_reasoning and the final cards                                 *)
(***************************************************************************)
\* what the reasoning LLM call does: it fails (or returns no JSON), or it
\* returns the JSON asked for
ReasoningOutcomes == {"fail", "ok"}

\* technique highlights as the LLM words them
LlmHighlights == << <<"D","e","g","l","a","z","i","n","g"," ","t","h","e"," ","p","a","n">>, <<"R","e","d","u","c","i","n","g"," ","w","i","n","e">> >>

\* the prompt f-string, built before the try: recipe['title'],
\* ', '.join(recipe.get('techniques', [])), recipe['difficulty']
ReasoningRaises(recipe) ==
    \/ ~Has(recipe, "title")
    \/ ~Has(recipe, "difficulty")
    \/ Unhashable(recipe)

\* recipe.get("techniques", ["See recipe for details"])[:3]
FallbackHighlights(recipe) ==
    LET techniques == Get(recipe, "techniques",
                          Items(<< <<"S","e","e"," ","r","e","c","i","p","e"," ","f","o","r"," ","d","e","t","a","i","l","s">> >>))
    IN  [i \in 1..Min(3, Len(techniques)) |-> techniques[i].strs[1]]

GenerateReasoning(recipe, outcome) ==
    IF outcome = "ok"
    THEN [reasoning |-> "llm", technique_highlights |-> LlmHighlights, llm |-> 1]
    ELSE [reasoning |-> "fallback",
          technique_highlights |-> FallbackHighlights(recipe), llm |-> 0]

CardKeys == {"title", "url", "source", "author", "published_date",
             "difficulty", "time_estimate"}

\* item["recipe"][key] for every key the card copies
CardRaises(recipe) == \E key \in CardKeys : ~Has(recipe, key)

\* round(score, 1): a score in whole tenths is its own rounding
Round1(score) == score

MakeCard(item, reasoning) ==
    [recipe |-> [title |-> item.recipe.title,
                 url |-> item.recipe.url,
                 published_date |-> item.recipe.published_date,
                 difficulty |-> item.recipe.difficulty],
     reasoning |-> reasoning.reasoning,
     technique_highlights |-> reasoning.technique_highlights,
     score |-> Round1(item.score),
     nutrition |-> "absent"]

\* the loop "for item in selected"; outcomes[i] is the LLM outcome for item i
RECURSIVE BuildCards(_, _, _, _, _)
BuildCards(selected, outcomes, i, cards, llm) ==
    IF i > Len(selected) THEN [raised |-> FALSE, cards |-> cards, llm |-> llm]
    ELSE IF ReasoningRaises(selected[i].recipe)
    THEN [raised |-> TRUE, cards |-> cards, llm |-> llm]
    ELSE LET reasoning == GenerateReasoning(selected[i].recipe, outcomes[i])
         IN  IF CardRaises(selected[i].recipe)
             THEN [raised |-> TRUE, cards |-> cards, llm |-> llm + reasoning.llm]
             ELSE BuildCards(selected, outcomes, i + 1,
                             Append(cards, MakeCard(selected[i], reasoning)),
                             llm + reasoning.llm)

(***************************************************************************)
(* _generate_comparison                                                    *)
(***************************************************************************)
NotApplicable ==
    [recipe_1_focus |-> <<"N","/","A">>, recipe_2_focus |-> <<"N","/","A">>,
     shared_techniques |-> {}]

NoComparison == [none |-> TRUE]     \* comparison=None of create_initial_state

\* mutant of the comparison: no early return, final_cards[1] is indexed
GenerateComparison_unguarded(cards) ==
    IF Len(cards) < 2
    THEN [raised |-> TRUE, value |-> NoComparison]
    ELSE [raised |-> FALSE,
          value |-> [recipe_1_focus |-> cards[1].recipe.title,
                     recipe_2_focus |-> cards[2].recipe.title,
                     shared_techniques |->
                        Range(cards[1].technique_highlights)
                          \cap Range(cards[2].technique_highlights)]]

\* shared[:3] of a set of at most three highlights is the whole set
GenerateComparison(cards) ==
    IF Len(cards) < 2
    THEN [raised |-> FALSE, value |-> NotApplicable]
    ELSE [raised |-> FALSE,
          value |-> [recipe_1_focus |-> cards[1].recipe.title,
                     recipe_2_focus |-> cards[2].recipe.title,
                     shared_techniques |->
                        Range(cards[1].technique_highlights)
                          \cap Range(cards[2].technique_highlights)]]

(***************************************************************************)
(* personalization_engine_agent as a function of the state it reads        *)
(***************************************************************************)
\* [r for r in raw_recipes if r.get("url") not in excluded_urls]
ExcludeUrls(recipes, excluded) ==
    IF excluded = {} THEN recipes
    ELSE SelectSeq(recipes, LAMBDA r : ~(Has(r, "url") /\ r.url \in excluded))

\* mutant of step 1: the dietary restrictions are never relaxed
FilterWithFallback_strict(recipes, restrictions, skill) ==
    FilterRecipes(recipes, restrictions, skill)

\* mutant of the relaxed pass: taken already when fewer than 3 candidates pass
FilterWithFallback_eager(recipes, restrictions, skill) ==
    LET strict == FilterRecipes(recipes, restrictions, skill)
    IN  IF Len(strict) < MIN_FILTERED + 1
        THEN FilterRecipes(recipes, <<>>, skill)
        ELSE strict

\* Step 1 with its relaxed second pass
FilterWithFallback(recipes, restrictions, skill) ==
    LET strict == FilterRecipes(recipes, restrictions, skill)
    IN  IF Len(strict) < MIN_FILTERED
        THEN FilterRecipes(recipes, <<>>, skill)
        ELSE strict

\* Step 2 before the sort
ScoreAll(recipes, request) ==
    [i \in DOMAIN recipes |->
        [recipe |-> recipes[i], score |-> ScoreTable[recipes[i], request]]]

\* mutant of the stage's steps 1 and 2: the relaxed pass is run on the
\* candidates as given, the excluded ones among them
ScoredRecipes_relaxedAll(raw, request) ==
    LET kept == ExcludeUrls(raw, request.excluded_urls)
        strict == FilterRecipes(kept, request.dietary_restrictions,
                                request.skill_level)
    IN  SortByScoreDesc(
            ScoreAll(IF Len(strict) < MIN_FILTERED
                     THEN FilterRecipes(raw, <<>>, request.skill_level)
                     ELSE strict,
                     request))

ScoredRecipes(raw, request) ==
    SortByScoreDesc(
        ScoreAll(FilterWithFallback(ExcludeUrls(raw, request.excluded_urls),
                                    request.dietary_restrictions,
                                    request.skill_level),
                 request))

\* Steps 4 and 5 on the sorted list and the selection: where the stage raised
\* ("none" when it returned) and what it wrote
PersonalizationRun(scored, sel, outcomes) ==
    LET built == BuildCards(sel.selected, outcomes, 1, <<>>, 0)
        cmp == GenerateComparison(built.cards)
    IN  IF sel.raised
        THEN [raised |-> "select", scored |-> scored, cards |-> <<>>,
              comparison |-> NoComparison, llm |-> 0]
        ELSE IF built.raised
        THEN [raised |-> "cards", scored |-> scored, cards |-> built.cards,
              comparison |-> NoComparison, llm |-> built.llm]
        ELSE IF cmp.raised
        THEN [raised |-> "comparison", scored |-> scored, cards |-> built.cards,
              comparison |-> NoComparison, llm |-> built.llm]
        ELSE [raised |-> "none", scored |-> scored, cards |-> built.cards,
              comparison |-> cmp.value, llm |-> built.llm]

\* what the stage can do for every input list and request, by what the
\* reasoning LLM calls do, computed once
PersonalizationRuns ==
    Tabulated(
        [raw \in ListsUpTo(Catalogue, MaxCands)
                    \cup ListsUpTo(ShapeCatalogue, MaxCands),
         request \in Requests |->
            LET scored == ScoredRecipes(raw, request)
                sel == SelectDiverseRecipes(Take(scored, TOP_SLICE), SELECT_COUNT)
            IN  Tabulated([outcomes \in [DOMAIN sel.selected -> ReasoningOutcomes] |->
                              PersonalizationRun(scored, sel, outcomes)])])

(***************************************************************************)
(* recipe_hunter_agent: the search / parse loops, folded over what the     *)
(* external calls return.                                                  *)
(***************************************************************************)
\* the recipes the hunter can hold: it sets url, source, published_date,
\* tavily_score and author itself
HunterRecipes == {R_chicken, R_rice}

\* _parse_recipe_from_snippet on one search result: a recipe, None without a
\* warning (no url or snippet), or None with a warning
ResultOutcomes ==
    {[kind |-> "recipe", recipe |-> r] : r \in HunterRecipes}
      \cup {[kind |-> "none"], [kind |-> "json_error"], [kind |-> "parse_error"]}

\* tavily_client.search for one query: it raises, or returns results of which
\* the loop reads results[:2]
QueryOutcomes ==
    {[search |-> "fail"]}
      \cup {[search |-> "ok", results |-> rs] :
               rs \in ListsUpTo(ResultOutcomes, HUNTER_RESULTS)}

\* for result in results[:2], with the break once two recipes are held
RECURSIVE ParseResults(_, _, _)
ParseResults(results, i, acc) ==
    IF i > Len(results) \/ Len(acc.recipes) >= HUNTER_ENOUGH THEN acc
    ELSE ParseResults(results, i + 1,
           CASE results[i].kind = "recipe" ->
                  [acc EXCEPT !.recipes = Append(@, results[i].recipe),
                              !.llm = @ + 1]
             [] results[i].kind = "json_error" ->
                  [acc EXCEPT !.errors = Append(@, "JSON parse error")]
             [] results[i].kind = "parse_error" ->
                  [acc EXCEPT !.errors = Append(@, "Recipe parsing error")]
             [] OTHER -> acc)

\* for query in search_queries[:3], with the break once two recipes are held
RECURSIVE SearchQueries(_, _, _)
SearchQueries(outcomes, i, acc) ==
    IF i > Len(outcomes) \/ Len(acc.recipes) >= HUNTER_ENOUGH THEN acc
    ELSE SearchQueries(outcomes, i + 1,
           IF outcomes[i].search = "fail"
           THEN [acc EXCEPT !.errors = Append(@, "Tavily search failed")]
           ELSE ParseResults(Take(outcomes[i].results, HUNTER_RESULTS), 1,
                             [acc EXCEPT !.tavily = @ + 1]))

\* mutant of the invocation: the first search that fails ends the loop
RunHunter_abort(outcomes) ==
    LET failing == {i \in DOMAIN outcomes : outcomes[i].search = "fail"}
        first == IF failing = {} THEN Len(outcomes) + 1
                 ELSE CHOOSE i \in failing : \A j \in failing : i <= j
        acc == SearchQueries(Take(outcomes, first), 1,
                  [recipes |-> <<>>, errors |-> <<>>, tavily |-> 0, llm |-> 0])
    IN  [acc EXCEPT !.recipes = Take(@, HUNTER_ENOUGH)]

\* mutant of the invocation: it stops at three recipes instead of two
RunHunter_three(outcomes) ==
    LET cells == {c \in (DOMAIN outcomes) \X (1..HUNTER_RESULTS) :
                     /\ outcomes[c[1]].search = "ok"
                     /\ c[2] <= Len(outcomes[c[1]].results)
                     /\ outcomes[c[1]].results[c[2]].kind = "recipe"}
        rank(c) == 1 + Cardinality({d \in cells :
                          d[1] < c[1] \/ (d[1] = c[1] /\ d[2] < c[2])})
        found == [k \in 1..Cardinality(cells) |->
                     LET c == CHOOSE d \in cells : rank(d) = k
                     IN  outcomes[c[1]].results[c[2]].recipe]
        acc == SearchQueries(outcomes, 1,
                  [recipes |-> <<>>, errors |-> <<>>, tavily |-> 0, llm |-> 0])
    IN  [acc EXCEPT !.recipes = Take(found, HUNTER_ENOUGH + 1)]

\* what one invocation writes: raw_recipes, the warnings appended, the calls
RunHunter(outcomes) ==
    LET acc == SearchQueries(outcomes, 1,
                  [recipes |-> <<>>, errors |-> <<>>, tavily |-> 0, llm |-> 0])
    IN  [acc EXCEPT !.recipes = Take(@, HUNTER_ENOUGH)]

\* the invocations possible for each number of queries searched
HunterRuns ==
    Tabulated([n \in 0..HUNTER_QUERIES |->
                  {RunHunter(o) : o \in [1..n -> QueryOutcomes]}])

(***************************************************************************)
(* route_after_recipe_hunter                                               *)
(***************************************************************************)
\* mutants of the retry condition
RetryPolicy_noBound(recipe_count, count) == recipe_count < MIN_RECIPES

RetryPolicy_once(recipe_count, count) ==
    recipe_count < MIN_RECIPES /\ count < MAX_RETRIES - 1

RetryPolicy_inclusive(recipe_count, count) ==
    recipe_count < MIN_RECIPES /\ count <= MAX_RETRIES

RetryPolicy_threshold(recipe_count, count) ==
    recipe_count < MIN_RECIPES - 1 /\ count < MAX_RETRIES

\* if recipe_count < 2 and retry_count < 2
RetryPolicy(recipe_count, count) ==
    recipe_count < MIN_RECIPES /\ count < MAX_RETRIES

LowCountMessage(recipe_count) ==
    IF recipe_count = 0
    THEN "Low recipe count (0), retrying with broader search"
    ELSE "Low recipe count (1), retrying with broader search"

LowCountMessages == {LowCountMessage(0), LowCountMessage(1)}

(***************************************************************************)
(* technique_validator_agent                                               *)
(***************************************************************************)
\* the validation LLM call per recipe: YES, NO, or an exception (kept)
Verdicts == {"YES", "NO", "error"}

\* the heuristic: no steps and no techniques (the parse prompt asks for
\* "instructions", so the recipes of this model carry no "steps")
NoStepsNoTechniques(recipe) == Get(recipe, "techniques", <<>>) = <<>>

RECURSIVE ValidateRecipes(_, _, _, _)
ValidateRecipes(recipes, verdicts, i, acc) ==
    IF i > Len(recipes) THEN acc
    ELSE IF NoStepsNoTechniques(recipes[i])
    THEN ValidateRecipes(recipes, verdicts, i + 1, acc)
    ELSE IF Unhashable(recipes[i])          \* ', '.join(recipe_techniques)
    THEN [acc EXCEPT !.raised = TRUE]
    ELSE ValidateRecipes(recipes, verdicts, i + 1,
           CASE verdicts[i] = "YES" ->
                  [acc EXCEPT !.recipes = Append(@, recipes[i]), !.llm = @ + 1]
             [] verdicts[i] = "NO" -> [acc EXCEPT !.llm = @ + 1]
             [] OTHER -> [acc EXCEPT !.recipes = Append(@, recipes[i]),
                                     !.faults = @ + 1])

RunValidator(recipes, define_ok, verdicts) ==
    ValidateRecipes(recipes, verdicts, 1,
        [raised |-> FALSE, recipes |-> <<>>,
         llm |-> IF define_ok THEN 1 ELSE 0,
         faults |-> IF define_ok THEN 0 ELSE 1])

(***************************************************************************)
(* nutrition_analyzer_agent                                                *)
(***************************************************************************)
NutritionOutcomes == {"ok", "fail"}

\* _find_recipe_by_title: the first raw recipe with the card's title
HasTitle(recipes, title) ==
    \E i \in DOMAIN recipes : Has(recipes[i], "title") /\ recipes[i].title = title

FindRecipeByTitle(recipes, title) ==
    recipes[CHOOSE i \in DOMAIN recipes :
               /\ Has(recipes[i], "title") /\ recipes[i].title = title
               /\ \A j \in 1..(i - 1) :
                     ~(Has(recipes[j], "title") /\ recipes[j].title = title)]

\* " ".join(recipe.get("ingredients", [])) raises TypeError on a nested list
ServingsRaises(recipe) ==
    \E i \in DOMAIN Get(recipe, "ingredients", <<>>) :
        Get(recipe, "ingredients", <<>>)[i].nested

RECURSIVE AnalyzeCards(_, _, _, _, _)
AnalyzeCards(cards, recipes, outcomes, i, acc) ==
    IF i > Len(cards) THEN acc
    ELSE IF ~HasTitle(recipes, cards[i].recipe.title)
    THEN AnalyzeCards(cards, recipes, outcomes, i + 1,
            [acc EXCEPT !.cards[i].nutrition = "unavailable"])
    ELSE IF ServingsRaises(FindRecipeByTitle(recipes, cards[i].recipe.title))
    THEN [acc EXCEPT !.raised = TRUE]
    ELSE AnalyzeCards(cards, recipes, outcomes, i + 1,
            IF outcomes[i] = "ok"
            THEN [acc EXCEPT !.cards[i].nutrition = "estimated", !.llm = @ + 1]
            ELSE [acc EXCEPT !.cards[i].nutrition = "unavailable",
                             !.faults = @ + 1])

RunNutrition(cards, recipes, outcomes) ==
    AnalyzeCards(cards, recipes, outcomes, 1,
        [raised |-> FALSE, cards |-> cards, llm |-> 0, faults |-> 0])

(***************************************************************************)
(* The run: create_initial_state, then the graph of create_workflow.       *)
(***************************************************************************)
Nodes == {"research_planner", "recipe_hunter", "technique_validator",
          "personalization", "nutrition_analyzer"}

\* mutant of the edges: the validator feeds the nutrition analyzer
Edge_skip(node) ==
    CASE node = "research_planner" -> "recipe_hunter"
      [] node = "recipe_hunter" -> "route"
      [] node = "technique_validator" -> "nutrition_analyzer"
      [] node = "personalization" -> "nutrition_analyzer"
      [] node = "nutrition_analyzer" -> "END"

\* workflow.add_edge / add_conditional_edges: where a node that returned
\* hands over ("route" is the conditional edge after recipe_hunter)
Edge(node) ==
    CASE node = "research_planner" -> "recipe_hunter"
      [] node = "recipe_hunter" -> "route"
      [] node = "technique_validator" -> "personalization"
      [] node = "personalization" -> "nutrition_analyzer"
      [] node = "nutrition_analyzer" -> "END"

\* no second request is being served
NoPair == [heap |-> <<>>, runs |-> <<>>, overlap |-> FALSE]

InitialHist ==
    [planner |-> 0, hunter |-> 0, found |-> <<>>, faults |-> 0, ranking |-> "no",
     outcome |-> "running", prompts |-> <<>>]

\* create_initial_state(learning_goal, skill_level, dietary_restrictions)
CreateInitialState(request) ==
    /\ learning_goal = request.learning_goal
    /\ skill_level = request.skill_level
    /\ dietary_restrictions = request.dietary_restrictions
    /\ excluded_urls = request.excluded_urls
    /\ search_queries = <<>>
    /\ search_strategy = "initial"
    /\ raw_recipes = <<>>
    /\ scored_recipes = <<>>
    /\ final_cards = <<>>
    /\ comparison = NoComparison
    /\ errors = <<>>
    /\ tavily_calls = 0
    /\ llm_calls = 0
    /\ retry_count = 0
    /\ http_status = 0
    /\ pair = NoPair
    /\ hist = InitialHist

\* workflow.set_entry_point("research_planner")
Init ==
    /\ pc = "research_planner"
    /\ \E request \in PipelineRequests : CreateInitialState(request)

inputs == <<learning_goal, skill_level, dietary_restrictions, excluded_urls>>

\* mutant of the planner's prompt: the strategy is not consulted
PlannerInstruction_deaf(strategy) ==
    [instruction |-> "targeted", temperature |-> 5]

\* strategy_instruction and the temperature (in tenths) of the LLM call
PlannerInstruction(strategy) ==
    IF strategy = "broadened"
    THEN [instruction |-> "broaden", temperature |-> 7]
    ELSE [instruction |-> "targeted", temperature |-> 5]

\* research_planner_agent: the LLM returns a list of queries
ResearchPlanner ==
    /\ pc = "research_planner"
    /\ hist.planner < MaxCalls
    /\ \E n \in 0..MaxQueries : search_queries' = [i \in 1..n |-> i]
    /\ llm_calls' = llm_calls + 1
    /\ pc' = Edge("research_planner")
    /\ hist' = [hist EXCEPT !.planner = @ + 1,
                            !.prompts = Append(@, PlannerInstruction(search_strategy))]
    /\ UNCHANGED <<inputs, pair, http_status, search_strategy, raw_recipes, scored_recipes,
                   final_cards, comparison, errors, tavily_calls, retry_count>>

\* mutant of the failing planner: the failure is counted as a retry
PlannerRaises_counted ==
    /\ pc = "research_planner"
    /\ pc' = "raised"
    /\ retry_count' = retry_count + 1
    /\ UNCHANGED <<inputs, pair, http_status, search_queries, search_strategy,
                   raw_recipes, scored_recipes, final_cards, comparison, errors,
                   tavily_calls, llm_calls, hist>>

\* research_planner_agent: client.chat.completions.create is not guarded
PlannerRaises ==
    /\ pc = "research_planner"
    /\ pc' = "raised"
    /\ UNCHANGED <<inputs, pair, http_status, search_queries, search_strategy, raw_recipes,
                   scored_recipes, final_cards, comparison, errors,
                   tavily_calls, llm_calls, retry_count, hist>>

\* mutant of the hunter: it writes its own warnings over the log
RecipeHunter_reset ==
    /\ pc = "recipe_hunter"
    /\ \E run \in HunterRuns[Min(Len(search_queries), HUNTER_QUERIES)] :
         /\ hist.faults + Len(run.errors) <= MaxFaults
         /\ raw_recipes' = run.recipes
         /\ errors' = run.errors
         /\ tavily_calls' = tavily_calls + run.tavily
         /\ llm_calls' = llm_calls + run.llm
         /\ hist' = [hist EXCEPT !.hunter = @ + 1,
                                 !.found = Append(@, Len(run.recipes)),
                                 !.faults = @ + Len(run.errors)]
    /\ pc' = Edge("recipe_hunter")
    /\ UNCHANGED <<inputs, pair, http_status, search_queries, search_strategy, scored_recipes,
                   final_cards, comparison, retry_count>>

\* mutant of the hunter: it adds what it finds to the candidates it is given
RecipeHunter_accumulating ==
    /\ pc = "recipe_hunter"
    /\ \E run \in HunterRuns[Min(Len(search_queries), HUNTER_QUERIES)] :
         /\ hist.faults + Len(run.errors) <= MaxFaults
         /\ raw_recipes' = Take(raw_recipes \o run.recipes, HUNTER_ENOUGH)
         /\ errors' = errors \o run.errors
         /\ tavily_calls' = tavily_calls + run.tavily
         /\ llm_calls' = llm_calls + run.llm
         /\ hist' = [hist EXCEPT !.hunter = @ + 1,
                                 !.found = Append(@, Len(run.recipes)),
                                 !.faults = @ + Len(run.errors)]
    /\ pc' = Edge("recipe_hunter")
    /\ UNCHANGED <<inputs, pair, http_status, search_queries, search_strategy, scored_recipes,
                   final_cards, comparison, retry_count>>

RecipeHunter ==
    /\ pc = "recipe_hunter"
    /\ \E run \in HunterRuns[Min(Len(search_queries), HUNTER_QUERIES)] :
         /\ hist.faults + Len(run.errors) <= MaxFaults
         /\ raw_recipes' = run.recipes
         /\ errors' = errors \o run.errors
         /\ tavily_calls' = tavily_calls + run.tavily
         /\ llm_calls' = llm_calls + run.llm
         /\ hist' = [hist EXCEPT !.hunter = @ + 1,
                                 !.found = Append(@, Len(run.recipes)),
                                 !.faults = @ + Len(run.errors)]
    /\ pc' = Edge("recipe_hunter")
    /\ UNCHANGED <<inputs, pair, http_status, search_queries, search_strategy, scored_recipes,
                   final_cards, comparison, retry_count>>

\* mutant of the conditional edge: a retry appends no warning
RouteAfterRecipeHunter_silent ==
    /\ pc = "route"
    /\ IF RetryPolicy(Len(raw_recipes), retry_count)
       THEN /\ search_strategy' = "broadened"
            /\ retry_count' = retry_count + 1
            /\ pc' = "research_planner"
            /\ UNCHANGED errors
       ELSE /\ pc' = "technique_validator"
            /\ UNCHANGED <<search_strategy, retry_count, errors>>
    /\ UNCHANGED <<inputs, pair, http_status, search_queries, raw_recipes, scored_recipes,
                   final_cards, comparison, tavily_calls, llm_calls, hist>>

\* the conditional edge after recipe_hunter
RouteAfterRecipeHunter ==
    /\ pc = "route"
    /\ IF RetryPolicy(Len(raw_recipes), retry_count)
       THEN /\ search_strategy' = "broadened"
            /\ retry_count' = retry_count + 1
            /\ errors' = Append(errors, LowCountMessage(Len(raw_recipes)))
            /\ pc' = "research_planner"
       ELSE /\ pc' = "technique_validator"
            /\ UNCHANGED <<search_strategy, retry_count, errors>>
    /\ UNCHANGED <<inputs, pair, http_status, search_queries, raw_recipes, scored_recipes,
                   final_cards, comparison, tavily_calls, llm_calls, hist>>

TechniqueValidator ==
    /\ pc = "technique_validator"
    /\ \E define_ok \in BOOLEAN, verdicts \in [DOMAIN raw_recipes -> Verdicts] :
         LET run == RunValidator(raw_recipes, define_ok, verdicts)
         IN  /\ hist.faults + run.faults <= MaxFaults
             /\ llm_calls' = llm_calls + run.llm
             /\ hist' = [hist EXCEPT !.faults = @ + run.faults]
             /\ IF run.raised
                THEN pc' = "raised" /\ UNCHANGED raw_recipes
                ELSE pc' = Edge("technique_validator") /\ raw_recipes' = run.recipes
    /\ UNCHANGED <<inputs, pair, http_status, search_queries, search_strategy, scored_recipes,
                   final_cards, comparison, errors, tavily_calls, retry_count>>

\* the fields of the state the ranking stage reads besides raw_recipes
CurrentRequest ==
    Request(learning_goal, skill_level, dietary_restrictions, excluded_urls)

Fails(outcomes) == Cardinality({i \in DOMAIN outcomes : outcomes[i] = "fail"})

\* mutant of the ranking stage: an empty selection sends the run back to
\* the entry stage
PersonalizationEngine_retrying ==
    /\ pc = "personalization"
    /\ LET runs == PersonalizationRuns[raw_recipes, CurrentRequest]
       IN  \E outcomes \in DOMAIN runs :
             LET run == runs[outcomes]
             IN  /\ hist.faults + Fails(outcomes) <= MaxFaults
                 /\ llm_calls' = llm_calls + run.llm
                 /\ hist' = [hist EXCEPT !.faults = @ + Fails(outcomes),
                                         !.ranking = run.raised]
                 /\ scored_recipes' = run.scored
                 /\ final_cards' = run.cards
                 /\ comparison' = run.comparison
                 /\ IF run.cards = <<>>
                    THEN /\ pc' = "research_planner"
                         /\ retry_count' = retry_count + 1
                    ELSE /\ pc' = Edge("personalization")
                         /\ UNCHANGED retry_count
    /\ UNCHANGED <<inputs, pair, http_status, search_queries, search_strategy, raw_recipes,
                   errors, tavily_calls>>

\* personalization_engine_agent; outcomes[i] is what the reasoning LLM call
\* for the i-th selected item does
PersonalizationEngine ==
    /\ pc = "personalization"
    /\ LET runs == PersonalizationRuns[raw_recipes, CurrentRequest]
       IN  \E outcomes \in DOMAIN runs :
             LET run == runs[outcomes]
             IN  /\ hist.faults + Fails(outcomes) <= MaxFaults
                 /\ llm_calls' = llm_calls + run.llm
                 /\ hist' = [hist EXCEPT !.faults = @ + Fails(outcomes),
                                         !.ranking = run.raised]
                 /\ IF run.raised = "none"
                    THEN /\ scored_recipes' = run.scored
                         /\ final_cards' = run.cards
                         /\ comparison' = run.comparison
                         /\ pc' = Edge("personalization")
                    ELSE /\ pc' = "raised"
                         /\ UNCHANGED <<scored_recipes, final_cards, comparison>>
    /\ UNCHANGED <<inputs, pair, http_status, search_queries, search_strategy, raw_recipes,
                   errors, tavily_calls, retry_count>>

NutritionAnalyzer ==
    /\ pc = "nutrition_analyzer"
    /\ \E outcomes \in [DOMAIN final_cards -> NutritionOutcomes] :
         LET run == RunNutrition(final_cards, raw_recipes, outcomes)
         IN  /\ hist.faults + run.faults <= MaxFaults
             /\ final_cards' = run.cards
             /\ llm_calls' = llm_calls + run.llm
             /\ hist' = [hist EXCEPT !.faults = @ + run.faults]
             /\ pc' = IF run.raised THEN "raised" ELSE Edge("nutrition_analyzer")
    /\ UNCHANGED <<inputs, pair, http_status, search_queries, search_strategy, raw_recipes,
                   scored_recipes, comparison, errors, tavily_calls, retry_count>>

Endpoints == {"recommend", "chat"}

\* mutant of the handlers: without "except HTTPException: raise"
HandleException_catchAll(endpoint, exc) ==
    IF endpoint = "chat" /\ exc.type = "ValueError" THEN 400 ELSE 500

\* the except clauses of the endpoint, in their order: an HTTPException is
\* raised again as it is, chat turns a ValueError into a 400, any other
\* exception becomes a 500
HandleException(endpoint, exc) ==
    IF exc.type = "HTTPException" THEN exc.status_code
    ELSE IF endpoint = "chat" /\ exc.type = "ValueError" THEN 400
    ELSE 500

\* the try block after workflow_app.invoke: what the endpoint answers for a
\* run that raised (a TypeError, a KeyError or an API error: no stage raises
\* a ValueError), or returned with these final cards
EndpointStatus(endpoint, raised, cards) ==
    IF raised THEN HandleException(endpoint, [type |-> "Exception"])
    ELSE IF cards = <<>>
    THEN HandleException(endpoint,
                         [type |-> "HTTPException", status_code |-> 404])
    ELSE 200

\* get_recommendations / chat once workflow_app.invoke has returned or raised
Respond ==
    /\ pc \in {"END", "raised"}
    /\ \E endpoint \in Endpoints :
          http_status' = EndpointStatus(endpoint, pc = "raised", final_cards)
    /\ hist' = [hist EXCEPT !.outcome = pc]
    /\ pc' = "responded"
    /\ UNCHANGED <<inputs, pair, search_queries, search_strategy, raw_recipes,
                   scored_recipes, final_cards, comparison, errors,
                   tavily_calls, llm_calls, retry_count>>

Next ==
    \/ ResearchPlanner
    \/ PlannerRaises
    \/ RecipeHunter
    \/ RouteAfterRecipeHunter
    \/ TechniqueValidator
    \/ PersonalizationEngine
    \/ NutritionAnalyzer
    \/ Respond

Spec == Init /\ [][Next]_vars

\* LangGraph runs the next node whenever there is one
FairSpec == Spec /\ WF_vars(Next)

(***************************************************************************)
(* The ranking stage alone, on every candidate list within the bound.      *)
(***************************************************************************)
\* the state the ranking stage is given: a request and a candidate list
RankingInput(recipes) ==
    /\ pc = "personalization"
    /\ \E request \in Requests, candidates \in ListsUpTo(recipes, MaxCands) :
         /\ learning_goal = request.learning_goal
         /\ skill_level = request.skill_level
         /\ dietary_restrictions = request.dietary_restrictions
         /\ excluded_urls = request.excluded_urls
         /\ raw_recipes = candidates
    /\ search_queries = <<>>
    /\ search_strategy = "initial"
    /\ scored_recipes = <<>>
    /\ final_cards = <<>>
    /\ comparison = NoComparison
    /\ errors = <<>>
    /\ tavily_calls = 0
    /\ llm_calls = 0
    /\ retry_count = 0
    /\ http_status = 0
    /\ pair = NoPair
    /\ hist = InitialHist

InitRank == RankingInput(Catalogue)

NextRank == PersonalizationEngine

RankSpec == InitRank /\ [][NextRank]_vars

(***************************************************************************)
(* The ranking stage alone, on candidates with missing fields and nested   *)
(* lists.                                                                  *)
(***************************************************************************)
InitShape == RankingInput(ShapeCatalogue)

NextShape == PersonalizationEngine

ShapeSpec == InitShape /\ [][NextShape]_vars

(***************************************************************************)
(* Two requests served at once. A list is an object on a heap and a state  *)
(* field holds its address, so that two states could hold the same list.   *)
(* Each stage is a function of the heap and the state it is given; a write *)
(* state[k] = v binds the field to a new object, state[k].append(v) and    *)
(* card[k] = v change the object the field holds.                          *)
(***************************************************************************)
\* the addresses a state allocates from lie above its base
RegionSize == 8

ListFields == {"search_queries", "raw_recipes", "scored_recipes",
               "final_cards", "errors"}

\* a new list object, at the first free address of the state's region
NewList(heap, base, value) ==
    LET ref == CHOOSE a \in (base + 1)..(base + RegionSize) :
                  /\ a \notin DOMAIN heap
                  /\ \A b \in (base + 1)..(a - 1) : b \in DOMAIN heap
    IN  [heap |-> heap @@ (ref :> value), ref |-> ref]

\* the objects some state still holds; the others are garbage
Collect(heap, states) ==
    [a \in {b \in DOMAIN heap : \E st \in states, f \in ListFields : st[f] = b}
        |-> heap[a]]


\* mutant of create_initial_state: errors is one list shared by every state
create_initial_state_shared(heap, request) ==
    LET base == (Cardinality(DOMAIN heap) \div 5) * RegionSize
    IN  [heap |-> heap @@ [a \in (base + 1)..(base + 5) |-> <<>>],
         st |-> [pc |-> "research_planner", request |-> request, base |-> base,
                 search_queries |-> base + 1, search_strategy |-> "initial",
                 raw_recipes |-> base + 2, scored_recipes |-> base + 3,
                 final_cards |-> base + 4, comparison |-> NoComparison,
                 errors |-> 5, tavily_calls |-> 0, llm_calls |-> 0,
                 retry_count |-> 0, log |-> <<>>]]

\* create_initial_state: every [] is a new list object, in a region of
\* addresses past those of the states created before. The request's own
\* values (dietary_restrictions or [], excluded_urls) are never written.
create_initial_state(heap, request) ==
    LET base == (Cardinality(DOMAIN heap) \div 5) * RegionSize
    IN  [heap |-> heap @@ [a \in (base + 1)..(base + 5) |-> <<>>],
         st |-> [pc |-> "research_planner", request |-> request, base |-> base,
                 search_queries |-> base + 1, search_strategy |-> "initial",
                 raw_recipes |-> base + 2, scored_recipes |-> base + 3,
                 final_cards |-> base + 4, comparison |-> NoComparison,
                 errors |-> base + 5, tavily_calls |-> 0, llm_calls |-> 0,
                 retry_count |-> 0, log |-> <<>>]]

\* the planner answers with one query
research_planner_agent(hs) ==
    LET new == NewList(hs.heap, hs.st.base, <<1>>)
    IN  [heap |-> new.heap,
         st |-> [hs.st EXCEPT !.search_queries = new.ref,
                              !.llm_calls = @ + 1,
                              !.pc = Edge("research_planner")]]

\* run is what the search and parse calls of this invocation amount to
recipe_hunter_agent(hs, run) ==
    LET new == NewList(hs.heap, hs.st.base, run.recipes)
    IN  [heap |-> [new.heap EXCEPT ![hs.st.errors] = @ \o run.errors],
         st |-> [hs.st EXCEPT !.raw_recipes = new.ref,
                              !.tavily_calls = @ + run.tavily,
                              !.llm_calls = @ + run.llm,
                              !.log = Append(@, run),
                              !.pc = Edge("recipe_hunter")]]

route_after_recipe_hunter(hs) ==
    LET recipe_count == Len(hs.heap[hs.st.raw_recipes])
    IN  IF RetryPolicy(recipe_count, hs.st.retry_count)
        THEN [heap |-> [hs.heap EXCEPT ![hs.st.errors] =
                                         Append(@, LowCountMessage(recipe_count))],
              st |-> [hs.st EXCEPT !.search_strategy = "broadened",
                                   !.retry_count = @ + 1,
                                   !.pc = "research_planner"]]
        ELSE [hs EXCEPT !.st.pc = "technique_validator"]

\* every validation call answers YES
technique_validator_agent(hs) ==
    LET raw == hs.heap[hs.st.raw_recipes]
        run == RunValidator(raw, TRUE, [i \in DOMAIN raw |-> "YES"])
        new == NewList(hs.heap, hs.st.base, run.recipes)
    IN  IF run.raised THEN [hs EXCEPT !.st.pc = "raised"]
        ELSE [heap |-> new.heap,
              st |-> [hs.st EXCEPT !.raw_recipes = new.ref,
                                   !.llm_calls = @ + run.llm,
                                   !.pc = Edge("technique_validator")]]

\* every reasoning call succeeds
personalization_engine_agent(hs) ==
    LET runs == PersonalizationRuns[hs.heap[hs.st.raw_recipes], hs.st.request]
        run == runs[CHOOSE outcomes \in DOMAIN runs :
                       \A i \in DOMAIN outcomes : outcomes[i] = "ok"]
        scored == NewList(hs.heap, hs.st.base, run.scored)
        cards == NewList(scored.heap, hs.st.base, run.cards)
    IN  IF run.raised # "none" THEN [hs EXCEPT !.st.pc = "raised"]
        ELSE [heap |-> cards.heap,
              st |-> [hs.st EXCEPT !.scored_recipes = scored.ref,
                                   !.final_cards = cards.ref,
                                   !.comparison = run.comparison,
                                   !.llm_calls = @ + run.llm,
                                   !.pc = Edge("personalization")]]

\* every nutrition call succeeds; the cards are changed where they are
nutrition_analyzer_agent(hs) ==
    LET cards == hs.heap[hs.st.final_cards]
        run == RunNutrition(cards, hs.heap[hs.st.raw_recipes],
                            [i \in DOMAIN cards |-> "ok"])
    IN  IF run.raised THEN [hs EXCEPT !.st.pc = "raised"]
        ELSE [heap |-> [hs.heap EXCEPT ![hs.st.final_cards] = run.cards],
              st |-> [hs.st EXCEPT !.llm_calls = @ + run.llm,
                                   !.pc = Edge("nutrition_analyzer")]]

\* what one invocation of the hunter can find for its one query: the search
\* fails, or it returns one recipe, or two
PairQueryOutcomes ==
    {[search |-> "fail"],
     [search |-> "ok", results |-> <<[kind |-> "recipe", recipe |-> R_chicken]>>],
     [search |-> "ok", results |-> <<[kind |-> "recipe", recipe |-> R_chicken],
                                     [kind |-> "recipe", recipe |-> R_rice]>>]}

\* the two requests served
PairRequests == <<PlainRequest, VeganRequest>>

\* get_recommendations / chat, twice: each calls create_initial_state
CreatePair ==
    LET first == create_initial_state(<<>>, PairRequests[1])
        second == create_initial_state(first.heap, PairRequests[2])
    IN  [heap |-> Collect(second.heap, {first.st, second.st}),
         runs |-> <<first.st, second.st>>, overlap |-> FALSE]

\* run i of the pair with the heap both runs live on
Run(i) == [heap |-> pair.heap, st |-> pair.runs[i]]

Finished(st) == st.pc \in {"END", "raised"}

\* run i has taken a step that left it as hs; overlap records that another
\* run was under way at that step
Stepped(i, hs) ==
    LET runs == [pair.runs EXCEPT ![i] = hs.st]
    IN  pair' = [heap |-> Collect(hs.heap, {runs[j] : j \in DOMAIN runs}),
                 runs |-> runs,
                 overlap |-> \/ pair.overlap
                             \/ \E j \in DOMAIN runs \ {i} :
                                   runs[j].llm_calls > 0 /\ ~Finished(runs[j])]

PairPlanner ==
    \E i \in DOMAIN pair.runs :
        /\ pair.runs[i].pc = "research_planner"
        /\ Stepped(i, research_planner_agent(Run(i)))

PairHunter ==
    \E i \in DOMAIN pair.runs, o \in PairQueryOutcomes :
        /\ pair.runs[i].pc = "recipe_hunter"
        /\ Stepped(i, recipe_hunter_agent(Run(i), RunHunter(<<o>>)))

PairRoute ==
    \E i \in DOMAIN pair.runs :
        /\ pair.runs[i].pc = "route"
        /\ Stepped(i, route_after_recipe_hunter(Run(i)))

PairValidator ==
    \E i \in DOMAIN pair.runs :
        /\ pair.runs[i].pc = "technique_validator"
        /\ Stepped(i, technique_validator_agent(Run(i)))

PairPersonalization ==
    \E i \in DOMAIN pair.runs :
        /\ pair.runs[i].pc = "personalization"
        /\ Stepped(i, personalization_engine_agent(Run(i)))

PairNutrition ==
    \E i \in DOMAIN pair.runs :
        /\ pair.runs[i].pc = "nutrition_analyzer"
        /\ Stepped(i, nutrition_analyzer_agent(Run(i)))

InitPair ==
    /\ pc = "research_planner"
    /\ learning_goal = PlainRequest.learning_goal
    /\ skill_level = PlainRequest.skill_level
    /\ dietary_restrictions = PlainRequest.dietary_restrictions
    /\ excluded_urls = PlainRequest.excluded_urls
    /\ search_queries = <<>>
    /\ search_strategy = "initial"
    /\ raw_recipes = <<>>
    /\ scored_recipes = <<>>
    /\ final_cards = <<>>
    /\ comparison = NoComparison
    /\ errors = <<>>
    /\ tavily_calls = 0
    /\ llm_calls = 0
    /\ retry_count = 0
    /\ http_status = 0
    /\ hist = InitialHist
    /\ pair = CreatePair

NextPair ==
    /\ \/ PairPlanner
       \/ PairHunter
       \/ PairRoute
       \/ PairValidator
       \/ PairPersonalization
       \/ PairNutrition
    /\ UNCHANGED <<pc, inputs, search_queries, search_strategy, raw_recipes,
                   scored_recipes, final_cards, comparison, errors,
                   tavily_calls, llm_calls, retry_count, http_status, hist>>

PairSpec == InitPair /\ [][NextPair]_vars

(***************************************************************************)
(* The extraction stage alone, on every way its search and parse calls can *)
(* end, followed by the decision.                                          *)
(***************************************************************************)
\* the stage is given n queries; hist.calls says how each call it can make
\* would end
InitHunter ==
    /\ pc = "recipe_hunter"
    /\ learning_goal = PlainRequest.learning_goal
    /\ skill_level = PlainRequest.skill_level
    /\ dietary_restrictions = PlainRequest.dietary_restrictions
    /\ excluded_urls = PlainRequest.excluded_urls
    /\ \E n \in 0..MaxQueries :
         /\ search_queries = [i \in 1..n |-> i]
         /\ \E calls \in [1..Min(n, HUNTER_QUERIES) -> QueryOutcomes] :
               hist = [calls |-> calls] @@ InitialHist
    /\ search_strategy = "initial"
    /\ raw_recipes = <<>>
    /\ scored_recipes = <<>>
    /\ final_cards = <<>>
    /\ comparison = NoComparison
    /\ errors = <<>>
    /\ tavily_calls = 0
    /\ llm_calls = 1
    /\ retry_count = 0
    /\ http_status = 0
    /\ pair = NoPair

\* recipe_hunter_agent with its calls ending as hist.calls says
HunterOnCalls ==
    /\ pc = "recipe_hunter"
    /\ LET run == RunHunter(hist.calls)
       IN  /\ raw_recipes' = run.recipes
           /\ errors' = errors \o run.errors
           /\ tavily_calls' = tavily_calls + run.tavily
           /\ llm_calls' = llm_calls + run.llm
           /\ hist' = [hist EXCEPT !.hunter = @ + 1,
                                   !.found = Append(@, Len(run.recipes)),
                                   !.faults = @ + Len(run.errors)]
    /\ pc' = Edge("recipe_hunter")
    /\ UNCHANGED <<inputs, pair, http_status, search_queries, search_strategy,
                   scored_recipes, final_cards, comparison, retry_count>>

NextHunter ==
    \/ HunterOnCalls
    \/ RouteAfterRecipeHunter

HunterSpec == InitHunter /\ [][NextHunter]_vars

(***************************************************************************)
(* The nutrition stage alone, on what the ranking stage leaves for up to   *)
(* two validated recipes, then the endpoint's answer.                      *)
(***************************************************************************)
InitNutrition ==
    /\ pc = "nutrition_analyzer"
    /\ \E request \in Requests,
          validated \in ListsUpTo(NutritionCatalogue, HUNTER_ENOUGH) :
         LET scored == ScoredRecipes(validated, request)
             sel == SelectDiverseRecipes(Take(scored, TOP_SLICE), SELECT_COUNT)
             run == PersonalizationRun(scored, sel,
                                       [i \in DOMAIN sel.selected |-> "ok"])
         IN  /\ run.raised = "none"
             /\ learning_goal = request.learning_goal
             /\ skill_level = request.skill_level
             /\ dietary_restrictions = request.dietary_restrictions
             /\ excluded_urls = request.excluded_urls
             /\ raw_recipes = validated
             /\ scored_recipes = run.scored
             /\ final_cards = run.cards
             /\ comparison = run.comparison
             /\ llm_calls = run.llm
    /\ search_queries = <<>>
    /\ search_strategy = "initial"
    /\ errors = <<>>
    /\ tavily_calls = 0
    /\ retry_count = 0
    /\ http_status = 0
    /\ pair = NoPair
    /\ hist = [InitialHist EXCEPT !.ranking = "none"]

NextNutrition ==
    \/ NutritionAnalyzer
    \/ Respond

NutritionSpec == InitNutrition /\ [][NextNutrition]_vars

(***************************************************************************)
(* Properties of the retry loop and the stage graph.                       *)
(***************************************************************************)
Terminal == pc \in {"END", "raised", "responded"}

\* what is left of a run: a natural number as long as the planner has run
\* at most MAX_RETRIES + 1 times
Measure ==
    IF pc = "responded" THEN 0
    ELSE 1 + 3 * (MAX_RETRIES + 1 - hist.planner)
           + CASE pc = "recipe_hunter" -> 8
               [] pc = "route" -> 7
               [] pc = "research_planner" -> 6
               [] pc = "technique_validator" -> 3
               [] pc = "personalization" -> 2
               [] pc = "nutrition_analyzer" -> 1
               [] OTHER -> 0

\* C1: the extraction stage (research_planner, then recipe_hunter) runs at
\* most MAX_RETRIES + 1 times in a run, whatever the searches return, and
\* the run comes to its end: a run that has not ended can take a step, and
\* every step takes it closer to the end
C1_BoundedRetry ==
    /\ [](/\ hist.planner <= MAX_RETRIES + 1
          /\ hist.hunter <= MAX_RETRIES + 1
          /\ ~Terminal => ENABLED Next)
    /\ [][Measure' < Measure]_vars

\* a run that ended after three extractions, none of which found two recipes
C1_Witness ==
    /\ pc = "END"
    /\ hist.hunter = MAX_RETRIES + 1
    /\ \A i \in DOMAIN hist.found : hist.found[i] < 2

\* C2: when every extraction found no candidate, the run ends with
\* retry_count = 2 and no final card
C2_AllEmpty ==
    (pc = "END" /\ \A i \in DOMAIN hist.found : hist.found[i] = 0)
        => (retry_count = 2 /\ final_cards = <<>>)

C2_Witness == pc = "END" /\ hist.found = <<0, 0, 0>>

\* C3: retry_count starts at 0, stays within 0..MAX_RETRIES and no step
\* decreases it
C3_RetryCount ==
    /\ retry_count = 0
    /\ [](retry_count \in 0..MAX_RETRIES)
    /\ [][retry_count' >= retry_count]_vars

\* the decision is taken with the budget used up and too few recipes
C3_Witness ==
    pc = "route" /\ retry_count = MAX_RETRIES /\ Len(raw_recipes) < 2

\* C4: the decision routes to research_planner exactly when fewer than 2
\* recipes were found and retry_count < 2, and to technique_validator in
\* every other case
C4_Decision ==
    [][pc = "route" =>
          /\ pc' \in {"research_planner", "technique_validator"}
          /\ (pc' = "research_planner")
                <=> (Len(raw_recipes) < 2 /\ retry_count < 2)]_vars

\* the decision advanced with too few recipes because the budget was used up
C4_Witness ==
    /\ pc = "technique_validator"
    /\ retry_count = 2
    /\ Len(raw_recipes) < 2
    /\ hist.found[Len(hist.found)] < 2

\* the stage of the state machine a node belongs to
Stage ==
    CASE pc \in {"research_planner", "recipe_hunter"} -> "extraction"
      [] pc = "route" -> "decision"
      [] pc = "technique_validator" -> "validation"
      [] pc = "personalization" -> "ranking"
      [] pc = "nutrition_analyzer" -> "enrichment"
      [] pc = "END" -> "end"
      [] OTHER -> "raised"

FiveStageEdges ==
    { <<"extraction", "extraction">>, <<"extraction", "decision">>,
      <<"decision", "extraction">>, <<"decision", "ranking">>,
      <<"ranking", "enrichment">>, <<"enrichment", "end">> }

SixStageEdges ==
    { <<"extraction", "extraction">>, <<"extraction", "decision">>,
      <<"decision", "extraction">>, <<"decision", "validation">>,
      <<"validation", "ranking">>,
      <<"ranking", "enrichment">>, <<"enrichment", "end">> }

Returned == hist.ranking = "none"

\* the candidates left by the excluded-URL filter, and by the strict filter
PostExclusion == ExcludeUrls(raw_recipes, excluded_urls)

StrictlyFiltered ==
    FilterRecipes(PostExclusion, dietary_restrictions, skill_level)

\* the scored entries in candidate order, before the sort
Unsorted ==
    ScoreAll(FilterWithFallback(PostExclusion, dietary_restrictions, skill_level),
             CurrentRequest)

Occurrences(seq, x) == Cardinality({i \in DOMAIN seq : seq[i] = x})

ScoredCandidates == [i \in DOMAIN scored_recipes |-> scored_recipes[i].recipe]

C7_DedupByUrl ==
    Returned =>
        \A i, j \in DOMAIN PostExclusion :
            (/\ i < j
             /\ PostExclusion[i].url = PostExclusion[j].url
             /\ PostExclusion[i] # PostExclusion[j]
             /\ \A h \in 1..(i - 1) : PostExclusion[h].url # PostExclusion[i].url)
                => /\ Cardinality({k \in DOMAIN scored_recipes :
                          scored_recipes[k].recipe.url = PostExclusion[i].url}) = 1
                   /\ \E k \in DOMAIN scored_recipes :
                          scored_recipes[k].recipe = PostExclusion[i]

\* C8: the scored set is in descending order of score, and the entries of
\* each score stand in the order they had in the candidate sequence
C8_SortedStable ==
    Returned =>
        /\ \A i \in 1..(Len(scored_recipes) - 1) :
              scored_recipes[i].score >= scored_recipes[i + 1].score
        /\ \A s \in {Unsorted[i].score : i \in DOMAIN Unsorted} :
              SelectSeq(scored_recipes, LAMBDA e : e.score = s)
                  = SelectSeq(Unsorted, LAMBDA e : e.score = s)

\* the sort moved an entry, and two different candidates of equal score
\* stand in it
C8_Witness ==
    /\ Returned
    /\ scored_recipes # Unsorted
    /\ \E i, j \in DOMAIN scored_recipes :
          /\ i < j
          /\ scored_recipes[i].score = scored_recipes[j].score
          /\ scored_recipes[i].recipe # scored_recipes[j].recipe

\* every candidate left by the excluded-URL filter is scored, as often as it
\* occurs, and nothing else is
AllCandidatesScored ==
    /\ Len(scored_recipes) = Len(PostExclusion)
    /\ \A r \in Range(PostExclusion) :
          Occurrences(ScoredCandidates, r) = Occurrences(PostExclusion, r)

\* C9 as claimed: when the dietary filter leaves fewer than 2 candidates, the
\* scored set is non-empty and consists of all candidates left by the
\* excluded-URL filter
C9_FallbackNonEmpty ==
    (Returned /\ Len(StrictlyFiltered) < 2)
        => (scored_recipes # <<>> /\ AllCandidatesScored)

\* C9 amended: when the dietary filter leaves fewer than 2 candidates, the
\* scored set consists of all candidates left by the excluded-URL filter; it
\* is empty exactly when no candidate is left by that filter
C9_FallbackAll ==
    (Returned /\ Len(StrictlyFiltered) < 2)
        => /\ AllCandidatesScored
           /\ scored_recipes = <<>> <=> PostExclusion = <<>>

\* the relaxed pass brought back candidates the dietary filter had dropped
C9_Witness ==
    /\ Returned
    /\ Len(StrictlyFiltered) < 2
    /\ Len(PostExclusion) >= 2
    /\ dietary_restrictions # <<>>
    /\ Len(scored_recipes) > Len(StrictlyFiltered)

\* C10: the ranking stage never fails in computing the comparison, and when
\* it selected fewer than 2 cards the comparison is the "not applicable"
\* value: both focus fields "N/A", no shared technique
C10_NotApplicable ==
    /\ hist.ranking # "comparison"
    /\ (Returned /\ Len(final_cards) < 2)
          => /\ comparison.recipe_1_focus = <<"N","/","A">>
             /\ comparison.recipe_2_focus = <<"N","/","A">>
             /\ comparison.shared_techniques = {}

\* the stage returned with exactly one card
C10_Witness == Returned /\ Len(final_cards) = 1 /\ comparison = NotApplicable

(***************************************************************************)
(* Properties of the endpoint and of failing stages.                       *)
(***************************************************************************)
\* C11: a run that returned with no final card is answered 404, a 404 is
\* answered for nothing else, and a run that raised is answered 500: the
\* exception handling never turns the 404 into the 500
C11_NotFoundDistinct ==
    pc = "responded" =>
        /\ (hist.outcome = "END" /\ final_cards = <<>>) <=> http_status = 404
        /\ hist.outcome = "raised" <=> http_status = 500

\* a run that went through every stage with nothing selected, answered 404
C11_Witness ==
    /\ pc = "responded"
    /\ hist.outcome = "END"
    /\ hist.ranking = "none"
    /\ final_cards = <<>>
    /\ http_status = 404

\* the counters of the stages that returned
StageCounters == <<hist.planner, hist.hunter, hist.ranking>>

\* C12: a stage that raises ends the run: the step that raises leaves
\* retry_count alone, the only step after it is the endpoint's answer, which
\* runs no stage, leaves retry_count alone and is a 500 (never the 404 of
\* the empty selection), and nothing follows the answer
C12_StageFailure ==
    /\ [][pc' = "raised" => (pc \in Nodes /\ retry_count' = retry_count)]_vars
    /\ [][pc = "raised" =>
            /\ pc' = "responded"
            /\ http_status' = 500
            /\ retry_count' = retry_count
            /\ StageCounters' = StageCounters]_vars
    /\ [][pc # "responded"]_vars

\* the planner raised on a retry: the hunter had run once, no later stage
\* ran, and the endpoint answered 500
C12_Witness ==
    /\ pc = "responded"
    /\ hist.outcome = "raised"
    /\ retry_count = 1
    /\ hist.hunter = 1
    /\ hist.ranking = "no"
    /\ http_status = 500

(***************************************************************************)
(* Properties of scoring and selection (scores in tenths of a point).      *)
(***************************************************************************)
\* C13 as claimed: for every scored candidate the learning-value term is in
\* [0, 30], the recency term is 5, 10, 15 or 20, and 10 when the date is
\* unknown or missing, the source term is in [0, 15] and the diversity term
\* is 0, 5 or 10
C13_ScoreTermRanges ==
    Returned =>
        \A i \in DOMAIN scored_recipes :
            LET recipe == scored_recipes[i].recipe
                published == Get(recipe, "published_date", <<>>)
            IN  /\ LearningValue(recipe, learning_goal) \in 0..300
                /\ Recency(recipe) \in {50, 100, 150, 200}
                /\ (published = <<>> \/ published = <<"U","n","k","n","o","w","n">>)
                      => Recency(recipe) = 100
                /\ SourceQuality(recipe) \in 0..150
                /\ TechniqueDiversity(recipe) \in {0, 50, 100}

\* what _select_diverse_recipes was given, and what it holds before the fill
\* loop: the list itself when it has at most 3 entries (returned at once),
\* else what the diversity pass selected
TopScored == Take(scored_recipes, TOP_SLICE)

PassSelection ==
    IF Len(TopScored) <= SELECT_COUNT THEN TopScored
    ELSE DiversityPass(TopScored, 2, <<TopScored[1]>>, SELECT_COUNT).selected

\* no item of the list shares 2 or more key words of its title with an
\* item before it
NoSharedKeyWords(items) ==
    \A i, j \in DOMAIN items :
        i < j => Cardinality(KeyWordsTable[items[i].recipe]
                               \cap KeyWordsTable[items[j].recipe]) < 2

\* C14 as claimed: for candidate lists of any length, a candidate whose title
\* shares at least 2 key words with an already selected item is not among
\* the items selected before the fill loop
C14_AnyLength == Returned => NoSharedKeyWords(PassSelection)

\* C14 amended: for lists of more than 3 scored candidates, the diversity
\* pass selects no candidate whose title shares at least 2 key words with an
\* item it selected before; its selection opens the final cards
C14_SimilarRejected ==
    (Returned /\ Len(TopScored) > SELECT_COUNT)
        => /\ NoSharedKeyWords(PassSelection)
           /\ \A k \in DOMAIN PassSelection :
                 final_cards[k].recipe.title = PassSelection[k].recipe.title

\* the pass ran on two different recipes with 2 shared key words and
\* selected something after the first item
C14_Witness ==
    /\ Returned
    /\ Len(TopScored) > SELECT_COUNT
    /\ Len(PassSelection) >= 2
    /\ \E i, j \in DOMAIN TopScored :
          /\ i < j
          /\ TopScored[i].recipe.title # TopScored[j].recipe.title
          /\ ~NoSharedKeyWords(<<TopScored[i], TopScored[j]>>)

\* C15 as claimed: the ranking stage never raises, whatever fields the
\* candidates lack and whatever lists they nest: once it has run it has
\* returned
C15_NeverRaises == hist.ranking \in {"no", "none"}

(***************************************************************************)
(* Two runs at once.                                                       *)
(***************************************************************************)
\* a state as its reader sees it: every list field by its contents
View(hs) ==
    [hs.st EXCEPT !.base = 0,
                  !.search_queries = hs.heap[@],
                  !.raw_recipes = hs.heap[@],
                  !.scored_recipes = hs.heap[@],
                  !.final_cards = hs.heap[@],
                  !.errors = hs.heap[@]]

\* workflow_app.invoke on a state of its own, the hunter finding what log
\* says; after each stage the lists the state dropped are garbage
RECURSIVE RunAlone(_, _)
RunAlone(hs, log) ==
    LET after ==
          CASE hs.st.pc = "research_planner" -> research_planner_agent(hs)
            [] hs.st.pc = "recipe_hunter" -> recipe_hunter_agent(hs, Head(log))
            [] hs.st.pc = "route" -> route_after_recipe_hunter(hs)
            [] hs.st.pc = "technique_validator" -> technique_validator_agent(hs)
            [] hs.st.pc = "personalization" -> personalization_engine_agent(hs)
            [] hs.st.pc = "nutrition_analyzer" -> nutrition_analyzer_agent(hs)
    IN  IF Finished(hs.st) \/ (hs.st.pc = "recipe_hunter" /\ log = <<>>) THEN hs
        ELSE RunAlone([after EXCEPT !.heap = Collect(@, {after.st})],
                      IF hs.st.pc = "recipe_hunter" THEN Tail(log) ELSE log)

\* C16: two runs interleaved at stage steps hold no list in common, and a
\* run that has finished holds the state it reaches when run alone on the
\* same extraction results.
C16_RunsIsolated ==
    /\ \A i, j \in DOMAIN pair.runs : \A f, g \in ListFields :
          i # j => pair.runs[i][f] # pair.runs[j][g]
    /\ \A i \in DOMAIN pair.runs :
          Finished(pair.runs[i]) =>
             View(Run(i)) = View(RunAlone(create_initial_state(<<>>, PairRequests[i]),
                                          pair.runs[i].log))

\* both runs finished after warnings of their own, one having taken a step
\* while the other was under way
C16_Witness ==
    /\ pair.runs # <<>>
    /\ Finished(pair.runs[1]) /\ Finished(pair.runs[2])
    /\ pair.overlap
    /\ pair.heap[pair.runs[1].errors] # <<>>
    /\ pair.heap[pair.runs[2].errors] # <<>>
    /\ pair.heap[pair.runs[1].errors] # pair.heap[pair.runs[2].errors]
    /\ pair.heap[pair.runs[1].final_cards] # <<>>


(***************************************************************************)
(* What the decision after extraction writes.                              *)
(***************************************************************************)
\* the low-count warnings in the error log
LowCountWarnings == {i \in DOMAIN errors : errors[i] \in LowCountMessages}

\* C17: a retry decision sets the strategy to broadened, adds one to
\* retry_count and appends exactly one low-count warning; an advance
\* decision leaves strategy, retry_count, error log and candidates as they
\* were; so the log holds as many low-count warnings as retry_count says.
C17_DecisionFrame ==
    /\ [](Cardinality(LowCountWarnings) = retry_count)
    /\ [][pc = "route" =>
            IF pc' = "research_planner"
            THEN /\ search_strategy' = "broadened"
                 /\ retry_count' = retry_count + 1
                 /\ \E warning \in LowCountMessages : errors' = Append(errors, warning)
                 /\ raw_recipes' = raw_recipes
            ELSE /\ pc' = "technique_validator"
                 /\ UNCHANGED <<search_strategy, retry_count, errors, raw_recipes>>]_vars

\* two retries, then an advance, with a warning of the hunter in the log
C17_Witness ==
    /\ pc = "technique_validator"
    /\ retry_count = 2
    /\ Len(errors) = 3
    /\ search_strategy = "broadened"


(***************************************************************************)
(* The fill loop of _select_diverse_recipes.                               *)
(***************************************************************************)
\* what _select_diverse_recipes returns for the top of the scored list
Selection == SelectDiverseRecipes(TopScored, SELECT_COUNT).selected

\* the diversity pass went over more than K candidates and selected fewer
PassFellShort ==
    /\ Returned
    /\ Len(TopScored) > SELECT_COUNT
    /\ Len(PassSelection) < SELECT_COUNT

HunterCalls ==
    {<<i, 0>> : i \in DOMAIN hist.calls}
      \cup {c \in (DOMAIN hist.calls) \X (1..HUNTER_RESULTS) :
               /\ hist.calls[c[1]].search = "ok"
               /\ c[2] <= Len(hist.calls[c[1]].results)}

CallGaveRecipe(c) ==
    c[2] > 0 /\ hist.calls[c[1]].results[c[2]].kind = "recipe"

CallFailed(c) ==
    IF c[2] = 0 THEN hist.calls[c[1]].search = "fail"
    ELSE hist.calls[c[1]].results[c[2]].kind \in {"json_error", "parse_error"}

\* the stage makes a call unless the calls before it gave two recipes
CallMade(c) ==
    Cardinality({d \in HunterCalls :
                    /\ d[1] < c[1] \/ (d[1] = c[1] /\ d[2] < c[2])
                    /\ CallGaveRecipe(d)}) < HUNTER_ENOUGH

\* C19: whatever search and parse calls fail, the extraction stage returns
\* and the decision is evaluated next; every failed call has appended one
\* warning and given no candidate, and the calls after it were still made:
\* the candidates are those of every successful call up to the second one.
C19_FailuresTolerated ==
    pc # "recipe_hunter" =>
        /\ pc \in {"route", "research_planner", "technique_validator"}
        /\ Len(errors) - Cardinality(LowCountWarnings)
             = Cardinality({c \in HunterCalls : CallMade(c) /\ CallFailed(c)})
        /\ Len(raw_recipes)
             = Cardinality({c \in HunterCalls : CallMade(c) /\ CallGaveRecipe(c)})
        /\ tavily_calls
             = Cardinality({c \in HunterCalls :
                               CallMade(c) /\ c[2] = 0 /\ ~CallFailed(c)})

\* the first search failed, a parse failed after it, a recipe was still
\* found, and the decision has been taken
C19_Witness ==
    /\ pc = "research_planner"
    /\ hist.calls # <<>>
    /\ hist.calls[1].search = "fail"
    /\ Len(errors) - Cardinality(LowCountWarnings) = 2
    /\ Len(raw_recipes) = 1


(***************************************************************************)
(* The nutrition stage and the selection.                                  *)
(***************************************************************************)
\* C20 as claimed: whatever the nutrition call of each card does, the stage
\* completes and leaves the same cards in the same order, each carrying an
\* estimated nutrition payload or the 'unavailable' default
C20_EnrichmentCompletes ==
    [][pc = "nutrition_analyzer" =>
          /\ pc' = "END"
          /\ Len(final_cards') = Len(final_cards)
          /\ \A i \in DOMAIN final_cards :
                /\ final_cards'[i].nutrition \in {"estimated", "unavailable"}
                /\ final_cards'[i] =
                     [final_cards[i] EXCEPT !.nutrition = final_cards'[i].nutrition]]_vars


(***************************************************************************)
(* The error log over the whole run.                                       *)
(***************************************************************************)
\* C21: every step of the run, stage or decision, leaves the previous
\* contents of errors as a prefix of the new contents: the log is never
\* cleared, truncated or reordered.
C21_AppendOnly ==
    [][/\ Len(errors') >= Len(errors)
       /\ SubSeq(errors', 1, Len(errors)) = errors]_vars

\* a run has ended with a warning of the hunter between two warnings of
\* the decision
C21_Witness ==
    /\ pc = "END"
    /\ Len(errors) = 3
    /\ errors[1] \in LowCountMessages
    /\ errors[2] \notin LowCountMessages
    /\ errors[3] \in LowCountMessages


(***************************************************************************)
(* The strategy hint over the retries.                                     *)
(***************************************************************************)
\* C22: the first invocation of the entry stage sees the strategy 'initial'
\* and asks for targeted queries, every invocation after a retry sees
\* 'broadened' and asks for broader ones, and a strategy that is 'broadened'
\* stays so for the rest of the run.
C22_StrategyHint ==
    /\ [](\A i \in DOMAIN hist.prompts :
             hist.prompts[i].instruction = IF i = 1 THEN "targeted" ELSE "broaden")
    /\ [](hist.planner > 1 => search_strategy = "broadened")
    /\ [][search_strategy = "broadened" => search_strategy' = "broadened"]_vars

\* the entry stage has run three times
C22_Witness ==
    /\ Len(hist.prompts) = 3
    /\ hist.prompts[1].instruction = "targeted"
    /\ hist.prompts[3].instruction = "broaden"
    /\ pc = "recipe_hunter"


(***************************************************************************)
(* The ranking stage and the retries.                                      *)
(***************************************************************************)
\* C23: the ranking stage runs once in a run; its step leaves retry_count,
\* the strategy, the error log and raw_recipes as they were and hands over
\* to the nutrition stage (or raises), also when no candidate is left: an
\* empty result is an empty final selection and nothing else.
C23_NoInternalRetry ==
    /\ [](pc \in {"nutrition_analyzer", "END"} => hist.ranking = "none")
    /\ [][pc = "personalization" =>
            /\ hist.ranking = "no"
            /\ pc' \in {"nutrition_analyzer", "raised"}
            /\ UNCHANGED <<retry_count, search_strategy, errors, raw_recipes>>
            /\ (pc' = "nutrition_analyzer" /\ scored_recipes' = <<>>)
                  => final_cards' = <<>>]_vars

\* the ranking stage has returned an empty selection for an empty
\* candidate set, the retries spent
C23_Witness ==
    /\ pc = "nutrition_analyzer"
    /\ hist.ranking = "none"
    /\ raw_recipes = <<>>
    /\ final_cards = <<>>
    /\ retry_count = MAX_RETRIES


(***************************************************************************)
(* The candidates the ranking stage is given.                              *)
(***************************************************************************)
\* C24 as claimed: when the ranking stage starts with retries left, the
\* candidate set it is given holds at least 2 candidates
C24_EnoughWhileBudget ==
    (pc = "personalization" /\ retry_count < MAX_RETRIES)
        => Len(raw_recipes) >= MIN_RECIPES


(***************************************************************************)
(* The tag-novelty condition of the diversity pass.                        *)
(***************************************************************************)
\* the diversity pass without its tag-novelty condition: a candidate that
\* no selected item is similar to is accepted
RECURSIVE SimilarityPass(_, _, _, _)
SimilarityPass(scored, i, selected, count) ==
    IF i > Len(scored) \/ Len(selected) >= count THEN selected
    ELSE IF IsSimilarDish(scored[i], selected)
    THEN SimilarityPass(scored, i + 1, selected, count)
    ELSE SimilarityPass(scored, i + 1, Append(selected, scored[i]), count)

\* the list _select_diverse_recipes is called with
SelectionInput == Take(ScoredRecipes(raw_recipes, CurrentRequest), TOP_SLICE)

C26_ReplacedEachAttempt ==
    /\ pc = "route" =>
          /\ Len(raw_recipes) = hist.found[Len(hist.found)]
          /\ \E run \in HunterRuns[Min(Len(search_queries), HUNTER_QUERIES)] :
                raw_recipes = run.recipes
    /\ (pc = "technique_validator" /\ retry_count < MAX_RETRIES)
          => hist.found[Len(hist.found)] >= MIN_RECIPES

\* two attempts have found one candidate each, and the run retries again
C26_Witness ==
    /\ pc = "research_planner"
    /\ hist.found = <<1, 1>>
    /\ Len(raw_recipes) = 1
    /\ retry_count = 2


(***************************************************************************)
(* Excluded URLs.                                                          *)
(***************************************************************************)
\* C27: once the ranking stage has returned, no scored candidate and no
\* final card has a URL of excluded_urls, whatever the candidates and the
\* dietary restrictions, also when the dietary filter was relaxed.
C27_ExcludedNeverShown ==
    Returned =>
        /\ \A i \in DOMAIN scored_recipes :
              scored_recipes[i].recipe.url \notin excluded_urls
        /\ \A i \in DOMAIN final_cards :
              final_cards[i].recipe.url \notin excluded_urls

\* a candidate with an excluded URL was given, the strict filter left fewer
\* than 2 candidates, and the relaxed pass scored some
C27_Witness ==
    /\ Returned
    /\ \E i \in DOMAIN raw_recipes : raw_recipes[i].url \in excluded_urls
    /\ Len(StrictlyFiltered) < MIN_FILTERED
    /\ Len(scored_recipes) > Len(StrictlyFiltered)
    /\ final_cards # <<>>


(***************************************************************************)
(* The size of the candidate set in a pipeline run.                        *)
(***************************************************************************)
\* C28: in a pipeline run the candidate set never holds more than 2
\* candidates, so the ranking stage scores at most 2, which is not more
\* than K = 3: _select_diverse_recipes returns its input without entering
\* the diversity pass, and the final selection holds at most 2 cards.
C28_AtMostTwo ==
    /\ Len(raw_recipes) <= HUNTER_ENOUGH
    /\ Len(scored_recipes) <= HUNTER_ENOUGH
    /\ Len(scored_recipes) <= SELECT_COUNT
    /\ Len(final_cards) <= HUNTER_ENOUGH
    /\ Returned => [i \in DOMAIN final_cards |-> final_cards[i].recipe.url]
                     = [i \in DOMAIN scored_recipes |-> scored_recipes[i].recipe.url]

\* a run has been answered with two cards
C28_Witness ==
    /\ pc = "responded"
    /\ http_status = 200
    /\ Len(scored_recipes) = 2
    /\ Len(final_cards) = 2


Violates(recipe) == SkipTable[recipe, dietary_restrictions]

\* the card was made from the candidate: it copies the title and the URL
CardOf(card, recipe) ==
    card.recipe.title = recipe.title /\ card.recipe.url = recipe.url

\* C30: when at least 2 candidates pass the strict dietary filter, no scored
\* candidate and no final card (through the candidate it was made from)
\* holds a forbidden word of a restriction of the request in its ingredient
\* text; a violating candidate is scored or shown only when fewer than 2
\* candidates passed and the relaxed pass was taken.
C30_StrictKeepsViolatorsOut ==
    Returned =>
        /\ Len(StrictlyFiltered) >= MIN_FILTERED =>
              /\ \A i \in DOMAIN scored_recipes : ~Violates(scored_recipes[i].recipe)
              /\ \A i \in DOMAIN final_cards : \A j \in DOMAIN raw_recipes :
                    CardOf(final_cards[i], raw_recipes[j]) => ~Violates(raw_recipes[j])
        /\ (\E i \in DOMAIN scored_recipes : Violates(scored_recipes[i].recipe))
              => Len(StrictlyFiltered) < MIN_FILTERED

\* at least 2 candidates passed the strict filter, which dropped a violating
\* candidate, and cards were made of candidates that passed
C30_Witness ==
    /\ Returned
    /\ dietary_restrictions # <<>>
    /\ Len(StrictlyFiltered) >= MIN_FILTERED
    /\ \E j \in DOMAIN PostExclusion : Violates(PostExclusion[j])
    /\ Len(scored_recipes) = Len(StrictlyFiltered)
    /\ final_cards # <<>>


====
